---- MODULE Spec2Model ----
(***************************************************************************)
(* Model of the backend of the urine-sediment analysis system:             *)
(*   app/routes/predict.py   predict_image  (the submit pipeline)          *)
(*   app/routes/storage.py   get_signed_url (the signed-access issuer)     *)
(*   app/utils/labels.py     CLASS_NAMES, get_class_name                   *)
(*   app/dependencies.py     verify_token                                  *)
(* The record store (Supabase Postgres), the object store (Supabase        *)
(* Storage), the identity resolver and the YOLO engine are collaborators:  *)
(* each call to one of them is one atomic step of a run, and its outcome   *)
(* (a result, an empty result, an exception) is chosen nondeterministically.*)
(* Strings that the code splits or concatenates (storage paths) are        *)
(* sequences of atoms, "/" being an atom of its own.                       *)
(***************************************************************************)
EXTENDS Integers, Sequences, FiniteSets, TLC

(* ------------------------------ bounds --------------------------------- *)
\* longest list of boxes the engine returns for one image
MaxDet == 2
\* how far above the size ceiling the uploaded payloads go, in bytes
MaxOver == 2
\* class indices -IndexSpan..IndexSpan are looked up in the taxonomy
IndexSpan == 8

(* --------------------------- program constants ------------------------- *)
STORAGE_BUCKET == "urine-images"

\* len(image_bytes) > 10 * 1024 * 1024 is "too large"
MAX_BYTES == 10 * 1024 * 1024

\* lifetime of a signed URL, seconds
EXPIRES_IN == 60

CLASS_NAMES ==
    [i \in 0..6 |->
        CASE i = 0 -> "erythrocyte"
          [] i = 1 -> "leukocyte"
          [] i = 2 -> "epithelial_cell"
          [] i = 3 -> "crystal"
          [] i = 4 -> "cast"
          [] i = 5 -> "bacteria"
          [] i = 6 -> "yeast"]

\* dict.values()
Values(d) == {d[k] : k \in DOMAIN d}

\* mutant: the lookup without its default (CLASS_NAMES.get(class_id) is None
\* for an index that is no key)
get_class_name_NoDefault(class_id) ==
    IF class_id \in DOMAIN CLASS_NAMES THEN CLASS_NAMES[class_id] ELSE "None"

\* CLASS_NAMES.get(class_id, "unknown")
get_class_name(class_id) ==
    IF class_id \in DOMAIN CLASS_NAMES THEN CLASS_NAMES[class_id] ELSE "unknown"

(* ------------------------------ the world ------------------------------ *)
Runs == {"r1", "r2"}

\* bearer credentials; the identity resolver knows the first two
Tokens == {"tokD1", "tokD2", "bad"}

\* supabase_auth.auth.get_user(token): the user id, or "" when it fails
Resolve(token) ==
    CASE token = "tokD1" -> "D1"
      [] token = "tokD2" -> "D2"
      [] OTHER -> ""

\* rows of the visits table (created outside the pipeline; never changed by it)
Visits ==
    { [id |-> "V1", doctor_id |-> "D1", case_id |-> "K1"],
      [id |-> "V2", doctor_id |-> "D2", case_id |-> "K2"] }

\* visit ids a caller may send; "V9" is no row of the table
VisitIds == {"V1", "V2", "V9"}

\* supabase.table("visits").select(...).eq("id", visit_id): the matching rows
VisitRows(visit_id) == {v \in Visits : v.id = visit_id}

(* ------------------------------ strings -------------------------------- *)
\* A path string is a sequence of atoms; the atom "/" is the separator.
Slash == "/"

\* str.startswith(prefix)
StartsWith(s, prefix) ==
    /\ Len(s) >= Len(prefix)
    /\ SubSeq(s, 1, Len(prefix)) = prefix

\* s[n:]
DropFirst(s, n) == SubSeq(s, n + 1, Len(s))

\* str.split("/"): the list of the segments between separators (a segment is
\* the sequence of its atoms, possibly empty)
RECURSIVE Split(_)
Split(s) ==
    IF \A i \in 1..Len(s) : s[i] # Slash
    THEN <<s>>
    ELSE LET k == CHOOSE i \in 1..Len(s) :
                      s[i] = Slash /\ \A j \in 1..(i - 1) : s[j] # Slash
         IN  <<SubSeq(s, 1, k - 1)>> \o Split(DropFirst(s, k))

\* f"{doctor_id}/{visit_id}/{storage_filename}"
MakeStoragePath(doctor_id, visit_id, storage_filename) ==
    <<doctor_id, Slash, visit_id, Slash, storage_filename>>

(* ------------------------------ uploads -------------------------------- *)
\* what PIL reports for the bytes: a format, or "none" when Image.open raises
Formats == {"JPEG", "PNG", "GIF", "none"}

Sizes == MAX_BYTES..(MAX_BYTES + MaxOver)

\* the uploaded bytes, as far as the pipeline looks at them
Payloads == [size : Sizes, format : Formats]

\* file.filename and file.content_type ("" when the client sent none); both are
\* chosen by the caller, who may put another clinician's id there
FileMetas ==
    { [filename |-> "scan.png", ext |-> ".png", content_type |-> "image/png"],
      [filename |-> "D2",       ext |-> "",     content_type |-> ""] }

\* the files callers upload: JPEG bytes sent under the name "D2" with no
\* extension and no content type, any other bytes sent as scan.png
Uploads ==
    { u \in [bytes : Payloads, file : FileMetas] :
        (u.bytes.format = "JPEG") <=> (u.file.filename = "D2") }

\* x or default
OrElse(x, default) == IF x = "" THEN default ELSE x

\* datetime.now() timestamp plus uuid4().hex[:8]: unique with high probability,
\* not by construction, so two runs may draw the same one
Stamps == {"t1_aaaa", "t1_bbbb"}

(* --------------------------- image validation -------------------------- *)
\* mutant: the ceiling compared with >= instead of >
ValidateImage_CeilingExclusive(bytes) ==
    IF bytes.format = "none" THEN "undecodable"
    ELSE IF bytes.format \notin {"JPEG", "PNG"} THEN "format"
    ELSE IF bytes.size >= MAX_BYTES THEN "too_large"
    ELSE "ok"

\* predict_image, step 2: "ok", or the error the checks raise, in the order the
\* code makes them: decode, then format whitelist, then size ceiling
ValidateImage(bytes) ==
    IF bytes.format = "none" THEN "undecodable"
    ELSE IF bytes.format \notin {"JPEG", "PNG"} THEN "format"
    ELSE IF bytes.size > MAX_BYTES THEN "too_large"
    ELSE "ok"

(* ------------------------------ inference ------------------------------ *)
\* class indices the engine emits (int(box.cls[0])): one of the known
\* enumeration and one outside it
ClassIds == {0, 7}

RECURSIVE SeqsUpTo(_, _)
SeqsUpTo(S, n) ==
    IF n = 0 THEN {<<>>}
    ELSE LET shorter == SeqsUpTo(S, n - 1)
         IN  shorter \cup {Append(q, x) : q \in {t \in shorter : Len(t) = n - 1}, x \in S}

\* what model(image) does: it raises, or it returns result.boxes, here the
\* class indices of the boxes, in order
EngineOutputs ==
    {[raised |-> TRUE, boxes |-> <<>>]}
        \cup [raised : {FALSE}, boxes : SeqsUpTo(ClassIds, MaxDet)]

\* the detection dict built for one box (confidence and bbox are copied from the
\* box after rounding and take no part in any decision; they are left out)
Detection(class_id) ==
    [class_id |-> class_id, class_name |-> get_class_name(class_id)]

\* mutant: counts starts empty (keys appear only when a class is detected)
InitialCounts_Sparse == [n \in {} |-> 0]

\* counts = {name: 0 for name in CLASS_NAMES.values()}
InitialCounts == [n \in Values(CLASS_NAMES) |-> 0]

\* counts.get(name, 0)
CountsGet(counts, name) == IF name \in DOMAIN counts THEN counts[name] ELSE 0

\* mutant: only the pre-populated keys are counted (a name that is no key of
\* counts is skipped)
CountsBump_KnownOnly(counts, class_name) ==
    [n \in DOMAIN counts |->
        IF n = class_name THEN counts[n] + 1 ELSE counts[n]]

\* counts[class_name] = counts.get(class_name, 0) + 1
CountsBump(counts, class_name) ==
    [n \in (DOMAIN counts) \cup {class_name} |->
        IF n = class_name THEN CountsGet(counts, class_name) + 1 ELSE counts[n]]

\* the loop over result.boxes: detections
RECURSIVE BuildDetections(_)
BuildDetections(boxes) ==
    IF boxes = <<>> THEN <<>>
    ELSE <<Detection(Head(boxes))>> \o BuildDetections(Tail(boxes))

\* the loop over result.boxes: counts
RECURSIVE BuildCounts(_)
BuildCounts(boxes) ==
    IF boxes = <<>> THEN InitialCounts
    ELSE CountsBump(BuildCounts(SubSeq(boxes, 1, Len(boxes) - 1)),
                    get_class_name(boxes[Len(boxes)]))

\* sum(counts.values())
RECURSIVE SumOver(_, _)
SumOver(counts, keys) ==
    IF keys = {} THEN 0
    ELSE LET k == CHOOSE x \in keys : TRUE
         IN  counts[k] + SumOver(counts, keys \ {k})

SumCounts(counts) == SumOver(counts, DOMAIN counts)

(* ------------------------------- state --------------------------------- *)
VARIABLES
    model,             \* predict.py module global: TRUE when YOLO(MODEL_PATH) loaded
    blobs,             \* object store, bucket STORAGE_BUCKET: the paths that hold an object
    images,            \* record store, table images: rows in insertion order
    analysis_results,  \* record store, table analysis_results: rows in insertion order
    runs,              \* one record per predict_image request: its locals, its position
                       \* (pc), the collaborator calls it has made (calls), whether
                       \* the store answered its visit lookup (lookup), its response
    url_resp,          \* the last get_signed_url request and its response
    hist_resp          \* the last request to a /history endpoint and its response

vars == <<model, blobs, images, analysis_results, runs, url_resp, hist_resp>>

\* a request that has not arrived yet
IdleRun ==
    [ pc           |-> "idle",
      token        |-> "",
      doctor_id    |-> "",
      visit_id     |-> "",
      bytes        |-> [size |-> 0, format |-> "none"],
      file         |-> [filename |-> "", ext |-> "", content_type |-> ""],
      storage_path |-> <<>>,
      detections   |-> <<>>,
      counts       |-> <<>>,
      image_id     |-> 0,
      result_id    |-> 0,
      calls        |-> <<>>,
      lookup       |-> "",
      response     |-> [status |-> 0, detail |-> "", body |-> <<>>] ]

NoUrlResp ==
    [ doctor_id |-> "", storage_path |-> <<>>, status |-> 0,
      signed_for |-> <<>>, requested |-> FALSE, body |-> <<>> ]

\* no /history request yet. args: the query parameters ("" or 0 when not sent);
\* notes: what the store did (first: the first or joined query, second: the
\* query of the fallback, broken: the image ids whose single-row lookup raised)
NoHistResp ==
    [ op |-> "", doctor_id |-> "",
      args |-> [search |-> <<>>, patient_id |-> "", case_id |-> "", visit_id |-> "",
                image_id |-> 0, analysis_id |-> 0],
      notes |-> [first |-> "", second |-> "", broken |-> {}],
      status |-> 0, body |-> <<>> ]

Init ==
    /\ model \in BOOLEAN
    /\ blobs = {}
    /\ images = <<>>
    /\ analysis_results = <<>>
    /\ runs = [r \in Runs |-> IdleRun]
    /\ url_resp = NoUrlResp
    /\ hist_resp = NoHistResp

\* the record store's clock, for created_at
Clock == Len(images) + Len(analysis_results) + 1

\* raise HTTPException(status_code, detail): the request ends with that response
Raise(run, status, detail) ==
    [run EXCEPT !.pc = "failed",
                !.response = [status |-> status, detail |-> detail, body |-> <<>>]]

\* the run has made one more call to a collaborator
Called(run, what) == [run EXCEPT !.calls = Append(@, what)]

(* ----------------------- predict_image, step by step ------------------- *)
\* The request arrives: verify_token resolves the credential (401 when it
\* cannot), then the handler checks that the engine is loaded.
Submit(r, token, visit_id) ==
    /\ runs[r].pc = "idle"
    /\ LET me  == [runs[r] EXCEPT !.token = token, !.visit_id = visit_id]
           uid == Resolve(token)
       IN  runs' = [runs EXCEPT ![r] =
                IF uid = "" THEN Raise(me, 401, "token")
                ELSE IF ~model THEN Raise([me EXCEPT !.doctor_id = uid], 500, "model")
                ELSE [me EXCEPT !.doctor_id = uid, !.pc = "authorizing"]]
    /\ UNCHANGED <<model, blobs, images, analysis_results, url_resp, hist_resp>>

\* mutant: the lookup without the comparison of the visit's doctor_id
AuthorizeStatus_NoOwnerCheck(outcome, rows, doctor_id) ==
    IF outcome = "error" THEN 400
    ELSE IF rows = {} THEN (IF outcome = "raise_if_none" THEN 400 ELSE 404)
    ELSE 0

\* the status the visit lookup ends with: 0 when the visit is the caller's
AuthorizeStatus(outcome, rows, doctor_id) ==
    IF outcome = "error" THEN 400
    ELSE IF rows = {} THEN (IF outcome = "raise_if_none" THEN 400 ELSE 404)
    ELSE IF (CHOOSE v \in rows : TRUE).doctor_id # doctor_id THEN 403
    ELSE 0

\* 1. the visit lookup. outcome: "error" (the store raises), "raise_if_none"
\* (single() raises when no row matches) or "data" (single() returns the row, or
\* empty data when no row matches)
Authorize(r, outcome) ==
    /\ runs[r].pc = "authorizing"
    /\ LET me     == [Called(runs[r], "visits.select") EXCEPT
                          !.lookup = IF outcome = "error" THEN "error" ELSE "answered"]
           status == AuthorizeStatus(outcome, VisitRows(me.visit_id), me.doctor_id)
       IN  runs' = [runs EXCEPT ![r] =
                CASE status = 0   -> [me EXCEPT !.pc = "validating"]
                  [] status = 404 -> Raise(me, 404, "visit_not_found")
                  [] status = 403 -> Raise(me, 403, "forbidden")
                  [] OTHER        -> Raise(me, status, "visit_error")]
    /\ UNCHANGED <<model, blobs, images, analysis_results, url_resp, hist_resp>>

\* splitext(file.filename)[1] or ".jpg", after the timestamp and the random part
StorageFilename(stamp, file) == stamp \o OrElse(file.ext, ".jpg")

\* 2. read and validate the image, then 3. build the storage path
Validate(r, upload, stamp) ==
    /\ runs[r].pc = "validating"
    /\ LET bytes   == upload.bytes
           file    == upload.file
           me      == [runs[r] EXCEPT !.bytes = bytes]
           verdict == ValidateImage(bytes)
       IN  runs' = [runs EXCEPT ![r] =
                IF verdict # "ok" THEN Raise(me, 400, verdict)
                ELSE [me EXCEPT !.pc = "uploading",
                                !.file = file,
                                !.storage_path =
                                    MakeStoragePath(me.doctor_id, me.visit_id,
                                                    StorageFilename(stamp, file))]]
    /\ UNCHANGED <<model, blobs, images, analysis_results, url_resp, hist_resp>>

\* 4. storage.from_(STORAGE_BUCKET).upload(storage_path, ..., upsert False).
\* outcome: "ok", "falsy" (an empty response) or "error" (the store raises);
\* an object already at the path is never replaced: the store rejects the write
UploadStored(outcome, path) == outcome = "ok" /\ path \notin blobs

Upload(r, outcome) ==
    /\ runs[r].pc = "uploading"
    /\ LET me     == Called(runs[r], "storage.upload")
           stored == UploadStored(outcome, me.storage_path)
       IN  /\ blobs' = IF stored THEN blobs \cup {me.storage_path} ELSE blobs
           /\ runs' = [runs EXCEPT ![r] =
                IF stored THEN [me EXCEPT !.pc = "inferring"]
                ELSE Raise(me, 500, "upload")]
    /\ UNCHANGED <<model, images, analysis_results, url_resp, hist_resp>>

\* mutant: the engine failure goes through the remove of step 6's except clause
AfterInferenceFailure_Compensates(run) == [run EXCEPT !.pc = "compensating"]

\* the except clause around the engine call: the request ends with a 500
AfterInferenceFailure(run) == Raise(run, 500, "yolo")

\* 5. results = model(image) and the loop over result.boxes.
\* (result.boxes None leaves detections and counts as for no boxes)
Infer(r, outcome) ==
    /\ runs[r].pc = "inferring"
    /\ LET me == Called(runs[r], "model")
       IN  runs' = [runs EXCEPT ![r] =
                IF outcome.raised THEN AfterInferenceFailure(me)
                ELSE [me EXCEPT !.pc = "persisting_image",
                                !.detections = BuildDetections(outcome.boxes),
                                !.counts = BuildCounts(outcome.boxes)]]
    /\ UNCHANGED <<model, blobs, images, analysis_results, url_resp, hist_resp>>

\* mutant: the owner taken from a field of the request instead of the token
ImageData_OwnerFromRequest(run) ==
    [ doctor_id         |-> run.file.filename,
      visit_id          |-> run.visit_id,
      storage_path      |-> run.storage_path,
      original_filename |-> run.file.filename,
      content_type      |-> OrElse(run.file.content_type, "image/jpeg") ]

\* image_data, the row sent to the images table
ImageData(run) ==
    [ doctor_id         |-> run.doctor_id,
      visit_id          |-> run.visit_id,
      storage_path      |-> run.storage_path,
      original_filename |-> run.file.filename,
      content_type      |-> OrElse(run.file.content_type, "image/jpeg") ]

\* the row as the store keeps it: the store adds id and created_at
\* (by: the request that inserted it; not a column, kept for the properties)
StoredImage(data, r) ==
    [ id                |-> Len(images) + 1,
      created_at        |-> Clock,
      by                |-> r,
      doctor_id         |-> data.doctor_id,
      visit_id          |-> data.visit_id,
      storage_path      |-> data.storage_path,
      original_filename |-> data.original_filename,
      content_type      |-> data.content_type ]

\* mutant: the failed images insert is not noticed and the run goes on to step 7
AfterImageInsertFailure_Continues(run) == [run EXCEPT !.pc = "persisting_analysis"]

\* where the run goes when the images insert raised or returned no data: into
\* the except clause, which first tries to remove the blob
AfterImageInsertFailure(run) == [run EXCEPT !.pc = "compensating"]

\* 6. supabase.table("images").insert(image_data).execute().
\* outcome: "ok" (the row is stored and returned), "empty" (no data comes
\* back, nothing was stored) or "error" (the store raises)
InsertImage(r, outcome) ==
    /\ runs[r].pc = "persisting_image"
    /\ LET me  == Called(runs[r], "images.insert")
           row == StoredImage(ImageData(me), r)
       IN  IF outcome = "ok"
           THEN /\ images' = Append(images, row)
                /\ runs' = [runs EXCEPT ![r] =
                        [me EXCEPT !.pc = "persisting_analysis", !.image_id = row.id]]
           ELSE /\ images' = images
                /\ runs' = [runs EXCEPT ![r] = AfterImageInsertFailure(me)]
    /\ UNCHANGED <<model, blobs, analysis_results, url_resp, hist_resp>>

\* mutant: a failed remove is not swallowed and replaces the insert failure
AfterRemove_Escalates(run, outcome) ==
    IF outcome = "raise" THEN Raise(run, 500, "remove") ELSE Raise(run, 500, "image_db")

\* the response of the except clause of step 6, whatever remove() did
\* (try: remove ... except: pass)
AfterRemove(run, outcome) == Raise(run, 500, "image_db")

\* the except clause of step 6: storage.remove([storage_path]), then the 500.
\* outcome: "ok" (the object is gone) or "raise" (the store raises, the object stays)
Compensate(r, outcome) ==
    /\ runs[r].pc = "compensating"
    /\ LET me == Called(runs[r], "storage.remove")
       IN  /\ blobs' = IF outcome = "ok" THEN blobs \ {me.storage_path} ELSE blobs
           /\ runs' = [runs EXCEPT ![r] = AfterRemove(me, outcome)]
    /\ UNCHANGED <<model, images, analysis_results, url_resp, hist_resp>>

\* mutant: the image id read back as the newest row of the table instead of
\* taken from the run's own insert
AnalysisData_NewestImage(run) ==
    [ doctor_id  |-> run.doctor_id,
      image_id   |-> Len(images),
      model_name |-> "best.pt",
      counts     |-> run.counts,
      detections |-> run.detections ]

\* analysis_data, the row sent to the analysis_results table
AnalysisData(run) ==
    [ doctor_id  |-> run.doctor_id,
      image_id   |-> run.image_id,
      model_name |-> "best.pt",
      counts     |-> run.counts,
      detections |-> run.detections ]

StoredAnalysis(data, r) ==
    [ id         |-> Len(analysis_results) + 1,
      created_at |-> Clock,
      by         |-> r,
      doctor_id  |-> data.doctor_id,
      image_id   |-> data.image_id,
      model_name |-> data.model_name,
      counts     |-> data.counts,
      detections |-> data.detections ]

\* 8. the success response
SuccessBody(run) ==
    [ success          |-> TRUE,
      image_id         |-> run.image_id,
      analysis_id      |-> run.result_id,
      storage_path     |-> run.storage_path,
      counts           |-> run.counts,
      detections       |-> run.detections,
      total_detections |-> Len(run.detections) ]

\* the except clause of step 7: the 500 and nothing else
AfterAnalysisInsertFailure(run) == Raise(run, 500, "analysis_db")

\* mutant: step 7 compensates like step 6 and removes the blob
BlobsAfterAnalysisInsertFailure_Removes(run) == blobs \ {run.storage_path}

\* the blobs left once step 7 has failed
BlobsAfterAnalysisInsertFailure(run) == blobs

\* 7. supabase.table("analysis_results").insert(analysis_data).execute(), then 8.
InsertAnalysis(r, outcome) ==
    /\ runs[r].pc = "persisting_analysis"
    /\ LET me  == Called(runs[r], "analysis_results.insert")
           row == StoredAnalysis(AnalysisData(me), r)
       IN  IF outcome = "ok"
           THEN /\ analysis_results' = Append(analysis_results, row)
                /\ blobs' = blobs
                /\ runs' = [runs EXCEPT ![r] =
                        LET done == [me EXCEPT !.pc = "done", !.result_id = row.id]
                        IN  [done EXCEPT !.response =
                                [status |-> 200, detail |-> "ok", body |-> SuccessBody(done)]]]
           ELSE /\ analysis_results' = analysis_results
                /\ blobs' = BlobsAfterAnalysisInsertFailure(me)
                /\ runs' = [runs EXCEPT ![r] = AfterAnalysisInsertFailure(me)]
    /\ UNCHANGED <<model, images, url_resp, hist_resp>>

UploadOutcomes == {"ok", "falsy", "error"}
LookupOutcomes == {"data", "raise_if_none", "error"}
InsertOutcomes == {"ok", "empty", "error"}
RemoveOutcomes == {"ok", "raise"}

Next ==
    \/ \E r \in Runs, token \in Tokens, visit_id \in VisitIds : Submit(r, token, visit_id)
    \/ \E r \in Runs, outcome \in LookupOutcomes : Authorize(r, outcome)
    \/ \E r \in Runs, upload \in Uploads, stamp \in Stamps : Validate(r, upload, stamp)
    \/ \E r \in Runs, outcome \in UploadOutcomes : Upload(r, outcome)
    \/ \E r \in Runs, outcome \in EngineOutputs : Infer(r, outcome)
    \/ \E r \in Runs, outcome \in InsertOutcomes : InsertImage(r, outcome)
    \/ \E r \in Runs, outcome \in RemoveOutcomes : Compensate(r, outcome)
    \/ \E r \in Runs, outcome \in InsertOutcomes : InsertAnalysis(r, outcome)

Spec == Init /\ [][Next]_vars

(* ------------------------- get_signed_url ------------------------------ *)
\* if storage_path.startswith(STORAGE_BUCKET + "/"): drop that prefix
StripBucket(storage_path) ==
    IF StartsWith(storage_path, <<STORAGE_BUCKET, Slash>>)
    THEN DropFirst(storage_path, 2)
    ELSE storage_path

\* mutant: the path's first segment is not compared with the caller
PathCheck_NoOwnerCheck(path, doctor_id) ==
    LET path_parts == Split(path)
    IN  IF Len(path_parts) < 3 THEN 400 ELSE 0

\* the status the path checks of get_signed_url end with, 0 when they pass:
\* first the number of segments, then the first segment against the caller
PathCheck(path, doctor_id) ==
    LET path_parts == Split(path)
    IN  IF Len(path_parts) < 3 THEN 400
        ELSE IF path_parts[1] # <<doctor_id>> THEN 403
        ELSE 0

\* the status once create_signed_url has been asked. outcome: "url" (a URL comes
\* back in one of the shapes the code understands), "empty" (a response with no
\* URL in it), "not_found" (the store raises, its message says the object is
\* not found) or "error" (the store raises something else)
SignStatus(outcome) ==
    CASE outcome = "url"       -> 200
      [] outcome = "not_found" -> 404
      [] OTHER                 -> 500

\* the whole handler. check: "data" or "error", what the images query does;
\* sign: what create_signed_url does (a URL only for an object that exists)
GetSignedUrl(token, storage_path, check, sign) ==
    /\ sign = "url" => StripBucket(storage_path) \in blobs
    /\ sign = "not_found" => StripBucket(storage_path) \notin blobs
    /\ LET doctor_id == Resolve(token)
           path      == StripBucket(storage_path)
           req       == [NoUrlResp EXCEPT !.doctor_id = doctor_id,
                                          !.storage_path = storage_path]
           gate      == PathCheck(path, doctor_id)
       IN  url_resp' =
               IF doctor_id = "" THEN [req EXCEPT !.status = 401]
               ELSE IF gate # 0 THEN [req EXCEPT !.status = gate]
               ELSE IF check = "error" THEN [req EXCEPT !.status = 500]
               ELSE [req EXCEPT !.status = SignStatus(sign),
                                !.requested = TRUE,
                                !.signed_for = path,
                                !.body = IF sign = "url"
                                         THEN [signed_url   |-> <<"signed", path>>,
                                               expires_in   |-> EXPIRES_IN,
                                               storage_path |-> path]
                                         ELSE <<>>]
    /\ UNCHANGED <<model, blobs, images, analysis_results, runs, hist_resp>>

\* storage paths a caller may ask a URL for
RequestPaths ==
    { <<"D1", Slash, "V9", Slash, "foo.jpg">>,
      <<"D1", Slash, "V1", Slash, "t1_aaaa.png">>,
      <<"D2", Slash, "V2", Slash, "t1_aaaa.jpg">>,
      <<STORAGE_BUCKET, Slash, "D1", Slash, "V1", Slash, "t1_aaaa.png">>,
      <<STORAGE_BUCKET, Slash, "D2", Slash, "V2">>,
      <<"D1", Slash, "V1">>,
      <<"D2", Slash, Slash, "x">>,
      <<"D1">>,
      <<>> }

\* states of the two stores that submit runs leave behind: objects, and image
\* rows for some of them
StoredPaths ==
    { <<"D1", Slash, "V1", Slash, "t1_aaaa.png">>,
      <<"D2", Slash, "V2", Slash, "t1_aaaa.jpg">> }

RowFor(path, n) ==
    [ id                |-> n,
      created_at        |-> n,
      by                |-> "r1",
      doctor_id         |-> path[1],
      visit_id          |-> path[3],
      storage_path      |-> path,
      original_filename |-> "scan.png",
      content_type      |-> "image/png" ]

InitSigned ==
    /\ model = TRUE
    /\ blobs \in SUBSET StoredPaths
    /\ \E rows \in SUBSET blobs :
          images \in { q \in SeqsUpTo({RowFor(p, n) : p \in rows, n \in 1..2}, 2) :
                         /\ Len(q) = Cardinality(rows)
                         /\ \A i \in 1..Len(q) : q[i].id = i
                         /\ {q[i].storage_path : i \in 1..Len(q)} = rows }
    /\ analysis_results = <<>>
    /\ runs = [r \in Runs |-> IdleRun]
    /\ url_resp = NoUrlResp
    /\ hist_resp = NoHistResp

CheckOutcomes == {"data", "error"}
SignOutcomes == {"url", "empty", "not_found", "error"}

NextSigned ==
    \E token \in Tokens, storage_path \in RequestPaths,
       check \in CheckOutcomes, sign \in SignOutcomes :
          GetSignedUrl(token, storage_path, check, sign)

SpecSigned == InitSigned /\ [][NextSigned]_vars

(* ============================ properties ============================== *)
\* the calls of a run that write to a store or run the engine
WorkCalls == {"storage.upload", "model", "images.insert", "analysis_results.insert"}

HasCalled(run, what) == \E i \in 1..Len(run.calls) : run.calls[i] = what

ImagesBy(r) == {i \in 1..Len(images) : images[i].by = r}
AnalysesBy(r) == {i \in 1..Len(analysis_results) : analysis_results[i].by = r}

\* the visit the run names exists and belongs to somebody else
OthersVisit(run) ==
    /\ run.doctor_id # ""
    /\ \E v \in Visits : v.id = run.visit_id /\ v.doctor_id # run.doctor_id

\* C1: a run whose engine call raised after its upload succeeded ends with a
\* 500 and, when it has ended, the object store holds no object at its path.
C1_InferenceFailureRemovesBlob ==
    \A r \in Runs :
        (runs[r].pc = "failed" /\ runs[r].response.detail = "yolo")
            => /\ runs[r].response.status = 500
               /\ runs[r].storage_path \notin blobs

\* C2: a run makes no upload, inference or insert unless its visit lookup came
\* first and returned a visit owned by the identity its credential resolved to;
\* a run on another clinician's visit whose lookup was answered ends with 403
\* having made no other call, and no row of either table is its own.
C2_OwnershipBeforeWork ==
    \A r \in Runs :
        LET run == runs[r]
        IN  /\ (\E w \in WorkCalls : HasCalled(run, w))
                  => /\ run.calls[1] = "visits.select"
                     /\ run.lookup = "answered"
                     /\ run.doctor_id = Resolve(run.token)
                     /\ run.doctor_id # ""
                     /\ \E v \in Visits :
                            v.id = run.visit_id /\ v.doctor_id = run.doctor_id
            /\ (OthersVisit(run) /\ run.lookup = "answered")
                  => /\ run.pc = "failed"
                     /\ run.response.status = 403
                     /\ run.calls = <<"visits.select">>
            /\ OthersVisit(run)
                  => /\ \A w \in WorkCalls \cup {"storage.remove"} : ~HasCalled(run, w)
                     /\ run.storage_path \notin blobs
                     /\ ImagesBy(r) = {}
                     /\ AnalysesBy(r) = {}

\* C2 witness: one run was refused with 403 on another clinician's visit while
\* the other run completed and left an object and rows behind
C2_Witness ==
    \E r, q \in Runs :
        /\ OthersVisit(runs[r])
        /\ runs[r].response.status = 403
        /\ runs[q].pc = "done"
        /\ blobs # {}

\* C3: the image row and the analysis row of every successful run carry, as
\* doctor_id, the identity verify_token resolved from the run's credential, and
\* so does every row of both tables, whatever visit id, filename and content
\* type the caller sent.
C3_OwnerIsResolvedIdentity ==
    /\ \A i \in 1..Len(images) :
            images[i].doctor_id = Resolve(runs[images[i].by].token)
    /\ \A i \in 1..Len(analysis_results) :
            analysis_results[i].doctor_id = Resolve(runs[analysis_results[i].by].token)
    /\ \A r \in Runs :
            runs[r].pc = "done"
                => /\ \E i \in ImagesBy(r) :
                        /\ images[i].id = runs[r].response.body.image_id
                        /\ images[i].doctor_id = Resolve(runs[r].token)
                   /\ \E i \in AnalysesBy(r) :
                        /\ analysis_results[i].id = runs[r].response.body.analysis_id
                        /\ analysis_results[i].doctor_id = Resolve(runs[r].token)

\* C3 witness: a run of clinician D1 succeeded although the filename it sent
\* is the id of clinician D2
C3_Witness ==
    \E r \in Runs :
        /\ runs[r].pc = "done"
        /\ Resolve(runs[r].token) = "D1"
        /\ runs[r].file.filename = "D2"
        /\ \E i \in ImagesBy(r) : images[i].original_filename = "D2"

\* C4: every analysis row references an image row that the same run inserted
\* earlier.
C4_AnalysisReferencesEarlierImage ==
    \A a \in 1..Len(analysis_results) :
        \E i \in 1..Len(images) :
            /\ images[i].id = analysis_results[a].image_id
            /\ images[i].by = analysis_results[a].by
            /\ images[i].created_at < analysis_results[a].created_at

\* C4 witness: two runs interleaved their inserts (the run that inserted its
\* image first inserted its analysis last)
C4_Witness ==
    /\ Len(images) = 2
    /\ Len(analysis_results) = 2
    /\ images[1].by # images[2].by
    /\ analysis_results[2].by = images[1].by

\* C5: in every success response and in the analysis row persisted by that run,
\* the values of counts sum to the number of detections, which is
\* total_detections.
C5_CountsSumToDetections ==
    /\ \A r \in Runs :
            runs[r].pc = "done"
                => LET body == runs[r].response.body
                   IN  /\ SumCounts(body.counts) = Len(body.detections)
                       /\ body.total_detections = Len(body.detections)
    /\ \A a \in 1..Len(analysis_results) :
            SumCounts(analysis_results[a].counts) = Len(analysis_results[a].detections)

\* C5 witness: a successful run with two detections, one of them of a class
\* index outside the known set
C5_Witness ==
    \E r \in Runs :
        /\ runs[r].pc = "done"
        /\ Len(runs[r].response.body.detections) = 2
        /\ \E k \in 1..2 : runs[r].response.body.detections[k].class_name = "unknown"
        /\ CountsGet(runs[r].response.body.counts, "unknown") >= 1

\* the first segment of the path the handler splits (the request's path, less
\* one leading bucket-name prefix) is not the caller's identity
ForeignPath(resp) ==
    /\ resp.doctor_id # ""
    /\ Split(StripBucket(resp.storage_path))[1] # <<resp.doctor_id>>

\* C6 as stated: every request for a path whose first segment is not the
\* caller's identity is answered 403, with no signed URL requested.
C6_ForeignPathAlways403 ==
    ForeignPath(url_resp) => (url_resp.status = 403 /\ ~url_resp.requested)

\* C6 amended: such a request is answered 403 when the path has at least three
\* segments and 400 when it has fewer; in both cases no signed URL is requested
\* from the object store, whether or not the object or its image row exists.
C6_ForeignPathRejected ==
    ForeignPath(url_resp) =>
        /\ ~url_resp.requested
        /\ url_resp.body = <<>>
        /\ url_resp.status =
              IF Len(Split(StripBucket(url_resp.storage_path))) >= 3 THEN 403 ELSE 400

\* C6 witness: clinician D2 was refused (403) a URL for an object of D1 that
\* exists, its image row too, the path sent with the bucket-name prefix
C6_Witness ==
    /\ url_resp.doctor_id = "D2"
    /\ url_resp.status = 403
    /\ StartsWith(url_resp.storage_path, <<STORAGE_BUCKET, Slash>>)
    /\ StripBucket(url_resp.storage_path) \in blobs
    /\ \E i \in 1..Len(images) :
            images[i].storage_path = StripBucket(url_resp.storage_path)

\* the run has read and checked its image
Validated(run) == run.bytes.size > 0

\* the validation error the run ended with, "" when it ended otherwise or not yet
ValidationError(run) ==
    IF run.pc = "failed" /\ run.response.status = 400
          /\ run.response.detail \in {"undecodable", "format", "too_large"}
    THEN run.response.detail
    ELSE ""

\* C7 as stated: a payload of exactly 10 MiB in a whitelisted format is
\* accepted, and every larger payload is rejected with the size error.
C7_OversizeAlwaysSizeError ==
    \A r \in Runs :
        Validated(runs[r]) =>
            /\ (runs[r].bytes.size = 10 * 1024 * 1024
                    /\ runs[r].bytes.format \in {"JPEG", "PNG"})
                  => ValidationError(runs[r]) = ""
            /\ runs[r].bytes.size >= 10 * 1024 * 1024 + 1
                  => ValidationError(runs[r]) = "too_large"

\* C7 amended: a payload of exactly 10 MiB in a whitelisted format is accepted;
\* every larger payload is rejected with status 400: with the size error when it
\* decodes to a whitelisted format, with the unsupported-format error when it
\* decodes to another format, with the undecodable error when it does not decode.
C7_SizeCeiling ==
    \A r \in Runs :
        Validated(runs[r]) =>
            /\ (runs[r].bytes.size = 10 * 1024 * 1024
                    /\ runs[r].bytes.format \in {"JPEG", "PNG"})
                  => /\ ValidationError(runs[r]) = ""
                     /\ runs[r].pc # "validating"
                     /\ runs[r].storage_path # <<>>
            /\ runs[r].bytes.size >= 10 * 1024 * 1024 + 1
                  => /\ runs[r].pc = "failed"
                     /\ runs[r].response.status = 400
                     /\ runs[r].calls = <<"visits.select">>
                     /\ ValidationError(runs[r]) =
                            CASE runs[r].bytes.format = "none" -> "undecodable"
                              [] runs[r].bytes.format \in {"JPEG", "PNG"} -> "too_large"
                              [] OTHER -> "format"

\* C7 witness: one run was rejected for a JPEG one byte over the ceiling, the
\* other was accepted with a PNG of exactly the ceiling
C7_Witness ==
    \E r, q \in Runs :
        /\ runs[r].bytes = [size |-> 10 * 1024 * 1024 + 1, format |-> "JPEG"]
        /\ ValidationError(runs[r]) = "too_large"
        /\ runs[q].bytes = [size |-> 10 * 1024 * 1024, format |-> "PNG"]
        /\ runs[q].pc = "uploading"

\* C8: get_class_name gives every index of CLASS_NAMES its name, none of them
\* "unknown", and gives every other index, negative ones too, "unknown"; a
\* detection of such an index is kept in the run's detections under that name
\* and counted.
C8_UnknownClassFallback ==
    /\ \A i \in DOMAIN CLASS_NAMES :
            get_class_name(i) = CLASS_NAMES[i] /\ get_class_name(i) # "unknown"
    /\ \A i \in ((0 - IndexSpan)..IndexSpan) \ DOMAIN CLASS_NAMES :
            get_class_name(i) = "unknown"
    /\ \A r \in Runs : \A k \in 1..Len(runs[r].detections) :
            LET d == runs[r].detections[k]
            IN  /\ d.class_id \in DOMAIN CLASS_NAMES => d.class_name = CLASS_NAMES[d.class_id]
                /\ d.class_id \notin DOMAIN CLASS_NAMES => d.class_name = "unknown"
                /\ CountsGet(runs[r].counts, d.class_name) >= 1
                /\ runs[r].response.detail # "yolo"

\* C8 witness: a run succeeded with a detection of class index 7, named
\* "unknown" in the persisted analysis
C8_Witness ==
    \E a \in 1..Len(analysis_results) :
        \E k \in 1..Len(analysis_results[a].detections) :
            /\ analysis_results[a].detections[k].class_id = 7
            /\ analysis_results[a].detections[k].class_name = "unknown"
            /\ runs[analysis_results[a].by].pc = "done"

\* the run's images insert was made and did not give it an image id
ImageInsertFailed(run) == HasCalled(run, "images.insert") /\ run.image_id = 0

\* a run whose images insert failed is in, or has left through, the except clause
ImageInsertFailureHandled ==
    \A r \in Runs :
        ImageInsertFailed(runs[r]) =>
            /\ ~HasCalled(runs[r], "analysis_results.insert")
            /\ ImagesBy(r) = {} /\ AnalysesBy(r) = {}
            /\ \/ /\ runs[r].pc = "compensating"
                  /\ runs[r].storage_path \in blobs
                  /\ runs[r].calls =
                        <<"visits.select", "storage.upload", "model", "images.insert">>
               \/ /\ runs[r].pc = "failed"
                  /\ runs[r].response = [status |-> 500, detail |-> "image_db", body |-> <<>>]
                  /\ runs[r].calls =
                        <<"visits.select", "storage.upload", "model", "images.insert",
                          "storage.remove">>

\* the step that takes a run out of the except clause removes the object at the
\* run's path and nothing else, or (the remove failed) leaves the store as it is
RemoveStep ==
    \A r \in Runs :
        (runs[r].pc = "compensating" /\ runs'[r].pc # "compensating")
            => /\ runs'[r].response = [status |-> 500, detail |-> "image_db", body |-> <<>>]
               /\ \/ blobs' = blobs \ {runs[r].storage_path}
                  \/ blobs' = blobs

\* C9: a run whose images insert failed (an error or an empty result) issues
\* one remove of the blob it uploaded and then ends with the 500 of the insert
\* failure, also when the remove fails; it never attempts the analysis insert.
C9_ImageInsertFailureCompensates ==
    []ImageInsertFailureHandled /\ [][RemoveStep]_vars

\* C9 witness: the remove failed (the run's object is still stored, no other
\* run has started) and the run ended with the insert failure
C9_Witness ==
    \E r \in Runs :
        /\ ImageInsertFailed(runs[r])
        /\ runs[r].pc = "failed"
        /\ runs[r].storage_path \in blobs
        /\ \A q \in Runs \ {r} : runs[q].pc = "idle"

\* C10: a run whose analysis insert failed after its image insert succeeded
\* ends with a 500, has issued no remove, and its image row and its blob are
\* still in place.
C10_AnalysisFailureLeavesImage ==
    \A r \in Runs :
        (runs[r].pc = "failed" /\ HasCalled(runs[r], "analysis_results.insert"))
            => /\ runs[r].response.status = 500
               /\ ~HasCalled(runs[r], "storage.remove")
               /\ runs[r].storage_path \in blobs
               /\ \E i \in ImagesBy(r) :
                     /\ images[i].id = runs[r].image_id
                     /\ images[i].storage_path = runs[r].storage_path
               /\ AnalysesBy(r) = {}

\* C10 witness: a run failed at the analysis insert
C10_Witness ==
    \E r \in Runs :
        /\ runs[r].pc = "failed"
        /\ runs[r].response.detail = "analysis_db"
        /\ runs[r].image_id # 0

(* ------------------------- properties, continued ----------------------- *)
\* the run named a visit that is no row of the visits table, as an
\* authenticated clinician, with the engine loaded
MissingVisit(run) ==
    /\ run.doctor_id # ""
    /\ VisitRows(run.visit_id) = {}
    /\ HasCalled(run, "visits.select")

\* C11: a run of an authenticated clinician for a visit id that is no row of
\* the visits table, its lookup answered by the store, ends with 404 and has
\* written nothing.
C11_MissingVisit404 ==
    \A r \in Runs :
        (MissingVisit(runs[r]) /\ runs[r].lookup = "answered")
            => /\ runs[r].pc = "failed"
               /\ runs[r].response.status = 404
               /\ runs[r].calls = <<"visits.select">>
               /\ ImagesBy(r) = {} /\ AnalysesBy(r) = {}

\* the number of detections whose class index resolves to the name
Detected(detections, name) ==
    Cardinality({k \in 1..Len(detections) :
                    get_class_name(detections[k].class_id) = name})

\* C13: the counts of every success response, and of the analysis row the run
\* persisted, have a key for every name of CLASS_NAMES, whose value is the
\* number of returned detections that resolve to that name (0 when none does).
C13_CountsCoverKnownClasses ==
    /\ \A r \in Runs :
            runs[r].pc = "done"
                => LET body == runs[r].response.body
                   IN  \A i \in DOMAIN CLASS_NAMES :
                          /\ CLASS_NAMES[i] \in DOMAIN body.counts
                          /\ body.counts[CLASS_NAMES[i]] =
                                Detected(body.detections, CLASS_NAMES[i])
    /\ \A a \in 1..Len(analysis_results) :
            \A i \in DOMAIN CLASS_NAMES :
                /\ CLASS_NAMES[i] \in DOMAIN analysis_results[a].counts
                /\ analysis_results[a].counts[CLASS_NAMES[i]] =
                      Detected(analysis_results[a].detections, CLASS_NAMES[i])

\* C13 witness: a successful run with two erythrocytes and nothing else
C13_Witness ==
    \E r \in Runs :
        /\ runs[r].pc = "done"
        /\ runs[r].response.body.counts["erythrocyte"] = 2
        /\ runs[r].response.body.counts["bacteria"] = 0
        /\ "unknown" \notin DOMAIN runs[r].response.body.counts

\* a remove is issued only by a run whose images insert failed, and once
RemoveOnlyAfterImageInsertFailure ==
    \A r \in Runs :
        /\ (HasCalled(runs[r], "storage.remove") \/ runs[r].pc = "compensating")
              => ImageInsertFailed(runs[r])
        /\ Cardinality({k \in 1..Len(runs[r].calls) :
                           runs[r].calls[k] = "storage.remove"}) <= 1

\* an object leaves the store only in the step of such a run
BlobsOnlyLeaveByCompensation ==
    (blobs \ blobs' # {}) =>
        \E r \in Runs :
            /\ runs[r].pc = "compensating"
            /\ ImageInsertFailed(runs[r])
            /\ blobs' = blobs \ {runs[r].storage_path}

\* C16: a run issues a remove to the object store only when its images insert
\* failed; a rejected upload, an engine failure, a failed analysis insert and a
\* success issue none, and no object leaves the store otherwise.
C16_RemoveOnlyOnImageInsertFailure ==
    []RemoveOnlyAfterImageInsertFailure /\ [][BlobsOnlyLeaveByCompensation]_vars

\* C16 witness: one run ended on an engine failure without a remove, its
\* object still stored, while the other removed its object after a failed
\* images insert
C16_Witness ==
    \E r, q \in Runs :
        /\ runs[r].response.detail = "yolo"
        /\ ~HasCalled(runs[r], "storage.remove")
        /\ runs[r].storage_path \in blobs
        /\ HasCalled(runs[q], "storage.remove")
        /\ runs[q].storage_path \notin blobs

\* a collaborator failed in the run: the record store during the visit lookup,
\* the object store at the upload, the engine, or the record store at an insert
CollaboratorFailed(run) ==
    \/ run.lookup = "error"
    \/ run.pc = "failed" /\ run.response.detail \in {"upload", "yolo", "image_db", "analysis_db"}

\* C18: every run in which a collaborator failed ends with status 500.
C18_CollaboratorFailureIs500 ==
    \A r \in Runs :
        CollaboratorFailed(runs[r]) => runs[r].response.status = 500

\* the calls of the stages, in order (validation makes no call)
StageCalls ==
    <<"visits.select", "storage.upload", "model", "images.insert",
      "analysis_results.insert">>

IsPrefix(s, t) == Len(s) <= Len(t) /\ s = SubSeq(t, 1, Len(s))

\* the calls a run has made are the stages' calls in order, each once, with
\* the one remove after a failed images insert and nothing after it
StagesInOrder ==
    \A r \in Runs :
        LET run == runs[r]
        IN  /\ \/ IsPrefix(run.calls, StageCalls)
               \/ /\ run.calls = SubSeq(StageCalls, 1, 4) \o <<"storage.remove">>
                  /\ ImageInsertFailed(run)
            /\ run.calls # <<>> => (run.doctor_id # "" /\ run.doctor_id = Resolve(run.token))
            /\ Validated(run) => run.calls # <<>>
            /\ HasCalled(run, "storage.upload")
                  => /\ Validated(run)
                     /\ run.bytes.format \in {"JPEG", "PNG"}
                     /\ run.bytes.size <= 10 * 1024 * 1024
            /\ run.pc = "failed" => run.response.status \in {400, 401, 403, 404, 500}
            /\ run.pc = "done"
                  => /\ run.calls = StageCalls
                     /\ run.response.status = 200
                     /\ Cardinality(ImagesBy(r)) = 1
                     /\ Cardinality(AnalysesBy(r)) = 1
                     /\ run.storage_path \in blobs
            /\ run.response.status = 200 => run.pc = "done"

\* a step of a run makes at most one call, and a run that has ended stays as it is
OneCallPerStep ==
    \A r \in Runs :
        /\ \/ runs'[r].calls = runs[r].calls
           \/ \E c \in {StageCalls[k] : k \in 1..Len(StageCalls)} \cup {"storage.remove"} :
                 runs'[r].calls = Append(runs[r].calls, c)
        /\ runs[r].pc \in {"done", "failed"} => runs'[r] = runs[r]

\* C19: every run makes its stages' calls in the order authorize, (validate,)
\* upload, inference, images insert, analysis insert, each at most once; the
\* first failure ends the run with an error response and no later stage's call;
\* a success response comes only after all of them, with exactly one image row
\* and one analysis row inserted by the run.
C19_StagesInFixedOrder ==
    []StagesInOrder /\ [][OneCallPerStep]_vars

\* C19 witness: one run succeeded with all five calls while the other stopped
\* at a rejected upload
C19_Witness ==
    \E r, q \in Runs :
        /\ runs[r].pc = "done"
        /\ runs[r].calls = StageCalls
        /\ runs[q].pc = "failed"
        /\ runs[q].calls = <<"visits.select", "storage.upload">>

(* ======================= /history: the read endpoints ================== *)
\* rows of the patients, patient_details and cases tables (created outside this
\* backend), in the order the queries below return them; every row carries its
\* owner, and a case belongs to a patient of the same owner, a visit to a case
\* of the same owner
Patients ==
    << [id |-> "P1", doctor_id |-> "D1", code |-> <<"P", "1">>],
       [id |-> "P2", doctor_id |-> "D2", code |-> <<"p", "2">>] >>

PatientDetails == << [patient_id |-> "P1", alias |-> <<"A", "n", "a">>] >>

Cases ==
    << [id |-> "K1", doctor_id |-> "D1", patient_id |-> "P1"],
       [id |-> "K2", doctor_id |-> "D2", patient_id |-> "P2"] >>

\* the visits, newest visit_date first
VisitsByDate ==
    << [id |-> "V2", doctor_id |-> "D2", case_id |-> "K2"],
       [id |-> "V1", doctor_id |-> "D1", case_id |-> "K1"] >>

\* order(..., desc=True) over rows kept in ascending order
Desc(rows) == [i \in 1..Len(rows) |-> rows[Len(rows) + 1 - i]]

\* the rows of a table with the given value in a column, as a relation embedded
\* by the store: <<>> when there is none (null)
RECURSIVE RowsWhere(_, _, _)
RowsWhere(table, column, value) ==
    IF table = <<>> THEN <<>>
    ELSE (IF Head(table)[column] = value THEN <<Head(table)>> ELSE <<>>)
            \o RowsWhere(Tail(table), column, value)

\* at most the first row, as an optional value
FirstOf(rows) == IF rows = <<>> THEN <<>> ELSE <<Head(rows)>>

\* One read is observed at a time: hist_resp holds its request and response
\* until Deliver hands the response to the caller.
\* a request to a /history endpoint, before its response is known
HistRequest(op, doctor_id, args, notes) ==
    [NoHistResp EXCEPT !.op = op, !.doctor_id = doctor_id, !.args = args, !.notes = notes]

NoArgs == NoHistResp.args
NoNotes == NoHistResp.notes

\* single().execute() on a query: the status the handler ends with when the
\* query does not give it a row (0: it does). outcome: "error" (the store
\* raises), "raise_if_none" (single() raises when no row matches) or "data"
\* (single() returns the row, or empty data when no row matches);
\* caught: the status the enclosing except Exception clause raises
SingleStatus(outcome, rows, caught) ==
    IF outcome = "error" THEN caught
    ELSE IF rows = <<>> THEN (IF outcome = "raise_if_none" THEN caught ELSE 404)
    ELSE 0

(* ------------------------------ list_images ---------------------------- *)
\* visits.select("id").eq("id", visit_id).eq("doctor_id", doctor_id)
VisitCheck(visit_id, doctor_id) ==
    RowsWhere(RowsWhere(VisitsByDate, "id", visit_id), "doctor_id", doctor_id)

\* select("*"): the columns of an images row
ImageStar(row) ==
    [ id                |-> row.id,
      doctor_id         |-> row.doctor_id,
      visit_id          |-> row.visit_id,
      storage_path      |-> row.storage_path,
      original_filename |-> row.original_filename,
      content_type      |-> row.content_type,
      created_at        |-> row.created_at ]

RECURSIVE MapImageStar(_)
MapImageStar(rows) ==
    IF rows = <<>> THEN <<>> ELSE <<ImageStar(Head(rows))>> \o MapImageStar(Tail(rows))

\* mutant: the images query returns the newest row only
ImagesOfVisit_NewestOnly(visit_id, doctor_id) ==
    FirstOf(Desc(MapImageStar(
        RowsWhere(RowsWhere(images, "visit_id", visit_id), "doctor_id", doctor_id))))

\* images.select("*").eq("visit_id", visit_id).eq("doctor_id", doctor_id)
\*       .order("created_at", desc=True)
ImagesOfVisit(visit_id, doctor_id) ==
    Desc(MapImageStar(
        RowsWhere(RowsWhere(images, "visit_id", visit_id), "doctor_id", doctor_id)))

\* the whole handler. first: what the visit check does; second: "data" or
\* "error", what the images query does
ListImages(token, visit_id, first, second) ==
    /\ hist_resp = NoHistResp
    /\ LET doctor_id == Resolve(token)
           gate      == SingleStatus(first, VisitCheck(visit_id, doctor_id), 500)
           req       == HistRequest("list_images", doctor_id,
                                    [NoArgs EXCEPT !.visit_id = visit_id],
                                    [NoNotes EXCEPT !.first = first])
       IN  hist_resp' =
               IF doctor_id = "" THEN [HistRequest("list_images", "", NoArgs, NoNotes)
                                          EXCEPT !.status = 401]
               ELSE IF gate # 0 THEN [req EXCEPT !.status = gate]
               ELSE IF second = "error"
                    THEN [req EXCEPT !.status = 500, !.notes.second = second]
               ELSE [req EXCEPT !.status = 200, !.notes.second = second,
                                !.body = ImagesOfVisit(visit_id, doctor_id)]
    /\ UNCHANGED <<model, blobs, images, analysis_results, runs, url_resp>>

QueryOutcomes == {"data", "error"}

(* ------------------------------ list_patients -------------------------- *)
\* A text (a code, an alias, a search term) is a sequence of characters.
\* str.lower(), on the letters that occur
LowerChar(c) ==
    CASE c = "P" -> "p"
      [] c = "A" -> "a"
      [] c = "N" -> "n"
      [] OTHER -> c

Lower(text) == [i \in 1..Len(text) |-> LowerChar(text[i])]

\* str.strip()
RECURSIVE Strip(_)
Strip(text) ==
    IF text = <<>> THEN <<>>
    ELSE IF Head(text) = " " THEN Strip(Tail(text))
    ELSE IF text[Len(text)] = " " THEN Strip(SubSeq(text, 1, Len(text) - 1))
    ELSE text

\* term in text
Contains(text, term) ==
    \E i \in 0..(Len(text) - Len(term)) : SubSeq(text, i + 1, i + Len(term)) = term

\* patients.select("*, patient_details:patient_details(alias)").eq("doctor_id", ...)
\* .order("code"): each row with its details embedded (a list, or one object:
\* the handler reads both the same way); joined FALSE: the fallback, which sets
\* patient_details to None
PatientRow(row, joined) ==
    [ id        |-> row.id,
      doctor_id |-> row.doctor_id,
      code      |-> row.code,
      patient_details |->
          IF joined THEN RowsWhere(PatientDetails, "patient_id", row.id) ELSE <<>> ]

RECURSIVE MapPatientRow(_, _)
MapPatientRow(rows, joined) ==
    IF rows = <<>> THEN <<>>
    ELSE <<PatientRow(Head(rows), joined)>> \o MapPatientRow(Tail(rows), joined)

PatientsOf(doctor_id, joined) ==
    MapPatientRow(RowsWhere(Patients, "doctor_id", doctor_id), joined)

\* the filter on code or alias
MatchesSearch(p, search_term) ==
    \/ Contains(Lower(p.code), search_term)
    \/ /\ p.patient_details # <<>>
       /\ Contains(Lower(p.patient_details[1].alias), search_term)

RECURSIVE FilterPatients(_, _)
FilterPatients(patients, search_term) ==
    IF patients = <<>> THEN <<>>
    ELSE (IF MatchesSearch(Head(patients), search_term) THEN <<Head(patients)>> ELSE <<>>)
            \o FilterPatients(Tail(patients), search_term)

\* the whole handler. first: what the joined query does; second: what the
\* query of the fallback does
ListPatients(token, search, first, second) ==
    /\ hist_resp = NoHistResp
    /\ LET doctor_id == Resolve(token)
           req       == HistRequest("list_patients", doctor_id,
                                    [NoArgs EXCEPT !.search = search],
                                    [NoNotes EXCEPT !.first = first])
           patients  == PatientsOf(doctor_id, first = "data")
           found     == IF Strip(search) # <<>>
                        THEN FilterPatients(patients, Lower(Strip(search)))
                        ELSE patients
       IN  hist_resp' =
               IF doctor_id = "" THEN [HistRequest("list_patients", "", NoArgs, NoNotes)
                                          EXCEPT !.status = 401]
               ELSE IF first = "error" /\ second = "error"
                    THEN [req EXCEPT !.status = 500, !.notes.second = second]
               ELSE [req EXCEPT !.status = 200,
                                !.notes.second = IF first = "error" THEN second ELSE "",
                                !.body = found]
    /\ UNCHANGED <<model, blobs, images, analysis_results, runs, url_resp>>

\* search strings a caller may send (<<>>: none)
Searches == { <<>>, <<" ">>, <<"p">>, <<"A", "N">>, <<" ", "2">> }

(* ------------------------- list_cases, list_visits --------------------- *)
\* patient:patients(id, code), embedded by the store through the foreign key
EmbeddedPatient(patient_id) ==
    LET rows == RowsWhere(Patients, "id", patient_id)
    IN  IF rows = <<>> THEN <<>> ELSE <<[id |-> rows[1].id, code |-> rows[1].code]>>

CaseRow(row) ==
    [ id |-> row.id, doctor_id |-> row.doctor_id, patient_id |-> row.patient_id,
      patient |-> EmbeddedPatient(row.patient_id) ]

RECURSIVE MapCaseRow(_)
MapCaseRow(rows) ==
    IF rows = <<>> THEN <<>> ELSE <<CaseRow(Head(rows))>> \o MapCaseRow(Tail(rows))

\* cases.select("*, patient:patients(id, code)").eq("doctor_id", doctor_id)
\* [.eq("patient_id", patient_id)].order("created_at", desc=True)
CasesOf(doctor_id, patient_id) ==
    LET mine == RowsWhere(Cases, "doctor_id", doctor_id)
    IN  MapCaseRow(IF patient_id # "" THEN RowsWhere(mine, "patient_id", patient_id)
                   ELSE mine)

ListCases(token, patient_id, first) ==
    /\ hist_resp = NoHistResp
    /\ LET doctor_id == Resolve(token)
           req       == HistRequest("list_cases", doctor_id,
                                    [NoArgs EXCEPT !.patient_id = patient_id],
                                    [NoNotes EXCEPT !.first = first])
       IN  hist_resp' =
               IF doctor_id = "" THEN [HistRequest("list_cases", "", NoArgs, NoNotes)
                                          EXCEPT !.status = 401]
               ELSE IF first = "error" THEN [req EXCEPT !.status = 500]
               ELSE [req EXCEPT !.status = 200, !.body = CasesOf(doctor_id, patient_id)]
    /\ UNCHANGED <<model, blobs, images, analysis_results, runs, url_resp>>

\* case:cases(id, title, patient:patients(id, code))
EmbeddedCase(case_id) ==
    LET rows == RowsWhere(Cases, "id", case_id)
    IN  IF rows = <<>> THEN <<>>
        ELSE <<[id |-> rows[1].id, patient |-> EmbeddedPatient(rows[1].patient_id)]>>

VisitRow(row) ==
    [ id |-> row.id, doctor_id |-> row.doctor_id, case_id |-> row.case_id,
      case |-> EmbeddedCase(row.case_id) ]

RECURSIVE MapVisitRow(_)
MapVisitRow(rows) ==
    IF rows = <<>> THEN <<>> ELSE <<VisitRow(Head(rows))>> \o MapVisitRow(Tail(rows))

\* visits.select("*, case:cases(...)").eq("doctor_id", doctor_id)
\* [.eq("case_id", case_id)].order("visit_date", desc=True)
VisitsOf(doctor_id, case_id) ==
    LET mine == RowsWhere(VisitsByDate, "doctor_id", doctor_id)
    IN  MapVisitRow(IF case_id # "" THEN RowsWhere(mine, "case_id", case_id) ELSE mine)

ListVisits(token, case_id, first) ==
    /\ hist_resp = NoHistResp
    /\ LET doctor_id == Resolve(token)
           req       == HistRequest("list_visits", doctor_id,
                                    [NoArgs EXCEPT !.case_id = case_id],
                                    [NoNotes EXCEPT !.first = first])
       IN  hist_resp' =
               IF doctor_id = "" THEN [HistRequest("list_visits", "", NoArgs, NoNotes)
                                          EXCEPT !.status = 401]
               ELSE IF first = "error" THEN [req EXCEPT !.status = 500]
               ELSE [req EXCEPT !.status = 200, !.body = VisitsOf(doctor_id, case_id)]
    /\ UNCHANGED <<model, blobs, images, analysis_results, runs, url_resp>>

PatientIds == {"", "P1", "P2"}
CaseIds == {"", "K1", "K2"}

(* ------------------------------ list_analysis -------------------------- *)
\* images(id, storage_path, original_filename, content_type, visit_id,
\* created_at): the columns of an image embedded in an analysis
ImageColumns(row) ==
    [ id                |-> row.id,
      storage_path      |-> row.storage_path,
      original_filename |-> row.original_filename,
      content_type      |-> row.content_type,
      visit_id          |-> row.visit_id,
      created_at        |-> row.created_at ]

\* image:images(...), embedded by the store through analysis_results.image_id
EmbeddedImage(image_id) ==
    LET rows == RowsWhere(images, "id", image_id)
    IN  IF rows = <<>> THEN <<>> ELSE <<ImageColumns(rows[1])>>

\* images.select(...).eq("id", image_id_val).eq("doctor_id", doctor_id)
\* .single().execute() inside try/except: the image, or None when the query
\* raised (raised TRUE, or no row for single())
ManualImage(image_id, doctor_id, raised) ==
    LET rows == RowsWhere(RowsWhere(images, "id", image_id), "doctor_id", doctor_id)
    IN  IF raised \/ rows = <<>> THEN <<>> ELSE <<ImageColumns(rows[1])>>

\* select("*") of an analysis_results row, with the image relation
AnalysisRow(row, image) ==
    [ id         |-> row.id,
      created_at |-> row.created_at,
      doctor_id  |-> row.doctor_id,
      image_id   |-> row.image_id,
      model_name |-> row.model_name,
      counts     |-> row.counts,
      detections |-> row.detections,
      image      |-> image ]

\* [img["id"] for img in images.select("id").eq("visit_id", visit_id)
\*                                         .eq("doctor_id", doctor_id)]
ImageIdsOfVisit(visit_id, doctor_id) ==
    { images[i].id : i \in { j \in DOMAIN images : /\ images[j].visit_id = visit_id
                                                   /\ images[j].doctor_id = doctor_id } }

\* the rows whose id is in ids, in their order
RECURSIVE Keep(_, _)
Keep(rows, ids) ==
    IF rows = <<>> THEN <<>>
    ELSE (IF Head(rows).id \in ids THEN <<Head(rows)>> ELSE <<>>) \o Keep(Tail(rows), ids)

\* mutant: the base query without .eq("doctor_id", doctor_id)
AnalysesOf_Everyone(doctor_id, image_id) ==
    Desc(IF image_id # 0 THEN RowsWhere(analysis_results, "image_id", image_id)
         ELSE analysis_results)

\* analysis_results.select(...).eq("doctor_id", doctor_id)[.eq("image_id", image_id)]
\* .order("created_at", desc=True)
AnalysesOf(doctor_id, image_id) ==
    LET mine == RowsWhere(analysis_results, "doctor_id", doctor_id)
    IN  Desc(IF image_id # 0 THEN RowsWhere(mine, "image_id", image_id) ELSE mine)

\* the join of the first try: the base query, narrowed by in_("image_id",
\* image_ids) when a visit is given, each row with its embedded image
JoinedAnalyses(doctor_id, visit_id, image_id) ==
    LET base == AnalysesOf(doctor_id, image_id)
        rows == IF visit_id # ""
                THEN Keep(base, { base[i].id : i \in { j \in DOMAIN base :
                        base[j].image_id \in ImageIdsOfVisit(visit_id, doctor_id) } })
                ELSE base
    IN  [i \in 1..Len(rows) |-> AnalysisRow(rows[i], EmbeddedImage(rows[i].image_id))]

\* the manual join of the fallback. broken: the analyses whose image lookup raised
ManualAnalyses(doctor_id, image_id, broken) ==
    LET base == AnalysesOf(doctor_id, image_id)
    IN  [i \in 1..Len(base) |->
            AnalysisRow(base[i], ManualImage(base[i].image_id, doctor_id,
                                             base[i].id \in broken))]

\* [a for a in analyses if a.get("image", {}).get("visit_id") == visit_id]:
\* a.get("image", {}) is None for an analysis whose image was set to None, and
\* None.get raises AttributeError
VisitFilterRaises(analyses) == \E i \in DOMAIN analyses : analyses[i].image = <<>>

VisitFilter(analyses, visit_id) ==
    Keep(analyses, { analyses[i].id : i \in { j \in DOMAIN analyses :
                                               analyses[j].image[1].visit_id = visit_id } })

\* the whole handler. first: what the queries of the first try do ("error": one
\* of them raises); second: what the base query of the fallback does; broken:
\* the analyses whose image lookup raises in the fallback
ListAnalysis(token, visit_id, image_id, first, second, broken) ==
    /\ hist_resp = NoHistResp
    /\ first = "data" => second = "data" /\ broken = {}
    /\ second = "error" => broken = {}
    /\ LET doctor_id == Resolve(token)
           req       == HistRequest("list_analysis", doctor_id,
                                    [NoArgs EXCEPT !.visit_id = visit_id,
                                                   !.image_id = image_id],
                                    [NoNotes EXCEPT !.first = first])
           fallback  == [req EXCEPT !.notes.second = second, !.notes.broken = broken]
           manual    == ManualAnalyses(doctor_id, image_id, broken)
       IN  hist_resp' =
               IF doctor_id = "" THEN [HistRequest("list_analysis", "", NoArgs, NoNotes)
                                          EXCEPT !.status = 401]
               ELSE IF first = "data"
                    THEN IF visit_id # "" /\ ImageIdsOfVisit(visit_id, doctor_id) = {}
                         THEN [req EXCEPT !.status = 200]
                         ELSE [req EXCEPT !.status = 200,
                                          !.body = JoinedAnalyses(doctor_id, visit_id, image_id)]
               ELSE IF second = "error" THEN [fallback EXCEPT !.status = 500]
               ELSE IF visit_id = "" THEN [fallback EXCEPT !.status = 200, !.body = manual]
               ELSE IF VisitFilterRaises(manual) THEN [fallback EXCEPT !.status = 500]
               ELSE [fallback EXCEPT !.status = 200, !.body = VisitFilter(manual, visit_id)]
    /\ UNCHANGED <<model, blobs, images, analysis_results, runs, url_resp>>

ImageIdArgs == 0..2
VisitIdArgs == {""} \cup VisitIds
AnalysisIds == 1..2

(* --------------------------- get_analysis_detail ----------------------- *)
\* visit:visits(id, visit_date, case:cases(id, title, patient:patients(id, code)))
VisitContext(row) == [id |-> row.id, case |-> EmbeddedCase(row.case_id)]

\* the image embedded in the full join, with its visit embedded in turn
EmbeddedImageWithVisit(image_id) ==
    LET rows   == RowsWhere(images, "id", image_id)
        visits == IF rows = <<>> THEN <<>> ELSE RowsWhere(VisitsByDate, "id", rows[1].visit_id)
    IN  IF rows = <<>> THEN <<>>
        ELSE << ImageColumns(rows[1]) @@
                [visit |-> IF visits = <<>> THEN <<>> ELSE <<VisitContext(visits[1])>>] >>

\* the manual load: the image by id and owner, then its visit by id and owner,
\* each single() in its own try. img, vis: "error" when the query raises.
\* A visit that could not be loaded leaves the image without one
ManualImageWithVisit(image_id, doctor_id, img, vis) ==
    LET image  == ManualImage(image_id, doctor_id, img = "error")
        visits == IF image = <<>> THEN <<>>
                  ELSE RowsWhere(RowsWhere(VisitsByDate, "id", image[1].visit_id),
                                 "doctor_id", doctor_id)
    IN  IF image = <<>> THEN <<>>
        ELSE << image[1] @@
                [visit |-> IF vis = "error" \/ visits = <<>> THEN <<>>
                           ELSE <<VisitContext(visits[1])>>] >>

\* analysis_results.select(...).eq("id", analysis_id).eq("doctor_id", doctor_id)
AnalysisCheck(analysis_id, doctor_id) ==
    RowsWhere(RowsWhere(analysis_results, "id", analysis_id), "doctor_id", doctor_id)

\* the whole handler. first: what the joined single() does; second: what the
\* single() of the fallback does; img, vis: what the manual image and visit
\* queries do
GetAnalysisDetail(token, analysis_id, first, second, img, vis) ==
    /\ hist_resp = NoHistResp
    /\ LET doctor_id == Resolve(token)
           rows      == AnalysisCheck(analysis_id, doctor_id)
           req       == HistRequest("get_analysis_detail", doctor_id,
                                    [NoArgs EXCEPT !.analysis_id = analysis_id],
                                    [NoNotes EXCEPT !.first = first])
           fallback  == [req EXCEPT !.notes.second = second]
           joined    == EmbeddedImageWithVisit(rows[1].image_id)
           manual    == ManualImageWithVisit(rows[1].image_id, doctor_id, img, vis)
           again     == SingleStatus(second, rows, 500)
       IN  hist_resp' =
               IF doctor_id = ""
               THEN [HistRequest("get_analysis_detail", "", NoArgs, NoNotes)
                        EXCEPT !.status = 401]
               ELSE IF first # "error" /\ rows # <<>>
                    THEN [req EXCEPT !.status = 200,
                                     !.body = << AnalysisRow(rows[1],
                                                   IF joined # <<>> THEN joined ELSE manual) >>]
               ELSE IF first = "data" THEN [req EXCEPT !.status = 404]
               ELSE IF again # 0 THEN [fallback EXCEPT !.status = again]
               ELSE [fallback EXCEPT !.status = 200,
                                     !.body = <<AnalysisRow(rows[1], manual)>>]
    /\ UNCHANGED <<model, blobs, images, analysis_results, runs, url_resp>>

(* ------------------- submits and reads, interleaved -------------------- *)
\* The reads see what the submits of both clinicians have stored. The submits
\* here are the ones that can store rows: a valid token, a PNG of the largest
\* accepted size, one detection, and collaborators that answer, except for the
\* two inserts, which may also fail.
StoringUploads ==
    { u \in Uploads : u.bytes.format = "PNG" /\ u.bytes.size = MAX_BYTES }

StoringOutputs == { [raised |-> FALSE, boxes |-> <<0>>] }

Callers == {"tokD1", "tokD2"}

\* the response of the read goes back to the caller
Deliver ==
    /\ hist_resp # NoHistResp
    /\ hist_resp' = NoHistResp
    /\ UNCHANGED <<model, blobs, images, analysis_results, runs, url_resp>>

NextHistory ==
    \/ \E r \in Runs, token \in Callers, visit_id \in VisitIds : Submit(r, token, visit_id)
    \/ \E r \in Runs : Authorize(r, "data")
    \/ \E r \in Runs, upload \in StoringUploads, stamp \in Stamps : Validate(r, upload, stamp)
    \/ \E r \in Runs : Upload(r, "ok")
    \/ \E r \in Runs, outcome \in StoringOutputs : Infer(r, outcome)
    \/ \E r \in Runs, outcome \in {"ok", "error"} : InsertImage(r, outcome)
    \/ \E r \in Runs : Compensate(r, "ok")
    \/ \E r \in Runs, outcome \in {"ok", "error"} : InsertAnalysis(r, outcome)
    \/ \E token \in Tokens, search \in Searches, first, second \in QueryOutcomes :
            ListPatients(token, search, first, second)
    \/ \E token \in Tokens, patient_id \in PatientIds, first \in QueryOutcomes :
            ListCases(token, patient_id, first)
    \/ \E token \in Tokens, case_id \in CaseIds, first \in QueryOutcomes :
            ListVisits(token, case_id, first)
    \/ \E token \in Tokens, visit_id \in VisitIds, first \in LookupOutcomes,
          second \in QueryOutcomes :
            ListImages(token, visit_id, first, second)
    \/ \E token \in Tokens, visit_id \in VisitIdArgs, image_id \in ImageIdArgs,
          first, second \in QueryOutcomes, broken \in SUBSET AnalysisIds :
            ListAnalysis(token, visit_id, image_id, first, second, broken)
    \/ \E token \in Tokens, analysis_id \in AnalysisIds, first, second \in LookupOutcomes,
          img, vis \in QueryOutcomes :
            GetAnalysisDetail(token, analysis_id, first, second, img, vis)
    \/ Deliver

SpecHistory == Init /\ [][NextHistory]_vars

(* ====================== properties of the read endpoints =============== *)
\* the observed read is an answered request of an authenticated caller to op
Answered(op) == hist_resp.op = op /\ hist_resp.doctor_id # ""

\* list_images was asked for a visit that does not exist or is another
\* clinician's, and the store answered the visit check
UnownedVisitListed ==
    /\ Answered("list_images")
    /\ VisitCheck(hist_resp.args.visit_id, hist_resp.doctor_id) = <<>>
    /\ hist_resp.notes.first # "error"

\* C12: list images for a visit that does not exist or is not owned by the
\* caller responds with 404 and returns no image records.
C12_UnownedVisit404 ==
    UnownedVisitListed => hist_resp.status = 404 /\ hist_resp.body = <<>>

\* a run that returned success
Succeeded(run) == run.pc = "done"

SuccessCarriesIds ==
    \A r \in Runs :
        Succeeded(runs[r]) =>
            /\ runs[r].response.status = 200
            /\ runs[r].response.body.image_id # 0
            /\ runs[r].response.body.analysis_id # 0
            /\ runs[r].response.body.storage_path = runs[r].storage_path

\* a list_images request is answered with a list in this step
ListImagesAnswers ==
    /\ hist_resp = NoHistResp
    /\ hist_resp'.op = "list_images"
    /\ hist_resp'.status = 200

ListedAfterSuccess ==
    ListImagesAnswers =>
        \A r \in Runs :
            ( /\ Succeeded(runs[r])
              /\ runs[r].doctor_id = hist_resp'.doctor_id
              /\ runs[r].visit_id = hist_resp'.args.visit_id )
                => \E i \in DOMAIN hist_resp'.body :
                      /\ hist_resp'.body[i].id = runs[r].response.body.image_id
                      /\ hist_resp'.body[i].storage_path = runs[r].response.body.storage_path

\* C14: a submit run that returned success carries an image id and an analysis
\* id in its response, and every list of images answered later to the same
\* clinician for the same visit has a record with that image id and that run's
\* storage path.
C14_SuccessThenListed == []SuccessCarriesIds /\ [][ListedAfterSuccess]_vars

\* C14 witness: both runs succeeded for one clinician and one visit, and a list
\* for that visit came back with both images
C14_Witness ==
    /\ \A r \in Runs : Succeeded(runs[r])
    /\ Answered("list_images")
    /\ hist_resp.status = 200
    /\ Len(hist_resp.body) = 2
    /\ \A r \in Runs :
          /\ runs[r].doctor_id = hist_resp.doctor_id
          /\ runs[r].visit_id = hist_resp.args.visit_id
          /\ \E i \in DOMAIN hist_resp.body :
                hist_resp.body[i].id = runs[r].response.body.image_id

\* the row of table with this id exists and is the caller's
Owns(doctor_id, table, id) ==
    /\ \E i \in DOMAIN table : table[i].id = id
    /\ \A i \in DOMAIN table : table[i].id = id => table[i].doctor_id = doctor_id

\* embedded relations (absent, or one record) that are the caller's, each with
\* what is embedded in it
PatientOwned(doctor_id, patient) ==
    \A k \in DOMAIN patient : Owns(doctor_id, Patients, patient[k].id)

CaseOwned(doctor_id, case) ==
    \A k \in DOMAIN case :
        /\ Owns(doctor_id, Cases, case[k].id)
        /\ PatientOwned(doctor_id, case[k].patient)

VisitOwned(doctor_id, visit) ==
    \A k \in DOMAIN visit :
        /\ Owns(doctor_id, VisitsByDate, visit[k].id)
        /\ CaseOwned(doctor_id, visit[k].case)

ImageOwned(doctor_id, image) ==
    \A k \in DOMAIN image :
        /\ Owns(doctor_id, images, image[k].id)
        /\ Owns(doctor_id, VisitsByDate, image[k].visit_id)
        /\ "visit" \in DOMAIN image[k] => VisitOwned(doctor_id, image[k].visit)

\* a record returned by op, with everything embedded in it, is the caller's
RecordOwned(op, doctor_id, record) ==
    /\ record.doctor_id = doctor_id
    /\ op = "list_patients" => Owns(doctor_id, Patients, record.id)
    /\ op = "list_cases" => PatientOwned(doctor_id, record.patient)
    /\ op = "list_visits" => CaseOwned(doctor_id, record.case)
    /\ op = "list_images" => Owns(doctor_id, images, record.id)
    /\ op \in {"list_analysis", "get_analysis_detail"} =>
          /\ Owns(doctor_id, analysis_results, record.id)
          /\ ImageOwned(doctor_id, record.image)

\* C15: every record a read operation returns, with the records embedded in
\* it, is owned by the authenticated caller, whatever the clinicians have
\* submitted and read before; a caller that is not authenticated gets none.
C15_ReadsReturnOwnRecords ==
    /\ \A i \in DOMAIN hist_resp.body :
          RecordOwned(hist_resp.op, hist_resp.doctor_id, hist_resp.body[i])
    /\ hist_resp.doctor_id = "" => hist_resp.body = <<>>

\* C15 witness: analyses of two clinicians are stored, and one of them listed
\* the analyses and got a record with its image
C15_Witness ==
    /\ \E a, b \in DOMAIN analysis_results :
          analysis_results[a].doctor_id # analysis_results[b].doctor_id
    /\ Answered("list_analysis")
    /\ hist_resp.body # <<>>
    /\ hist_resp.body[1].image # <<>>

\* list_analysis took the fallback and the store answered its base query
FallbackAnswered ==
    /\ Answered("list_analysis")
    /\ hist_resp.notes.first = "error"
    /\ hist_resp.notes.second = "data"

\* C17: when the join is not honoured, list analyses (with no filter, an image
\* filter or a visit filter) does not fail: it joins by hand, and an analysis
\* whose image cannot be resolved gets an empty image relation instead of an
\* error response.
C17_FallbackNeverFails == FallbackAnswered => hist_resp.status = 200

====
